---- MODULE Spec2Model ----
(***************************************************************************)
(* A model of src/src/scraper.py (class PriceScraper): the price           *)
(* extractor extract_price, the observation builder scrape_generic_product *)
(* and the store save_to_csv.                                              *)
(*                                                                         *)
(* Python values are tagged records, so that a value that may be None, a   *)
(* str or a float can be compared: None, Str(s) with s the sequence of the *)
(* string's characters, Float(n, p) for the number n / 10^p, and Exc(name) *)
(* for a raised exception that leaves the function.                        *)
(***************************************************************************)
EXTENDS Integers, Sequences, FiniteSets, TLC

VARIABLES
    ep_text,      \* extract_price: the argument of the call
    ep_result,    \* extract_price: Pending, or what the call produced
    call,         \* scrape_generic_product: Idle, or the inputs of the call
    ret,          \* scrape_generic_product: Idle, Returned(obs) or Exc(name)
    queried,      \* scrape_generic_product: the selectors given to select_one, in order
    file,         \* save_to_csv: the state of PRICE_DATA_FILE
    prev_file,    \* save_to_csv: PRICE_DATA_FILE as the last call found it
    last_new,     \* save_to_csv: the argument of the last call
    save_ret      \* save_to_csv: Idle, Returned(df_combined) or Exc(name)

vars == <<ep_text, ep_result, call, ret, queried, file, prev_file, last_new, save_ret>>

---------------------------------------------------------------------------
(* Bounds of the model. *)

\* the longest text enumerated in full for extract_price
MaxTextLen == 3

---------------------------------------------------------------------------
(* Python values. *)

None == [t |-> "None"]
Str(s) == [t |-> "str", s |-> s]
Exc(name) == [t |-> "raise", exc |-> name]
Pending == [t |-> "pending"]
Idle == [t |-> "idle"]
Returned(v) == [t |-> "return", v |-> v]

RECURSIVE Normalise(_, _)
\* n / 10^p with the trailing zeros of the fraction removed: one record per number
Normalise(n, p) ==
    IF p > 0 /\ n % 10 = 0 THEN Normalise(n \div 10, p - 1)
    ELSE [t |-> "float", num |-> n, pow |-> p]

Float(n, p) == Normalise(n, p)

\* bool(x) of an optional float: None and 0.0 are falsy
TruthyFloat(x) == x.t = "float" /\ x.num # 0

\* bool(s) of an optional str: None and '' are falsy
TruthyStr(x) == x.t = "str" /\ Len(x.s) > 0

---------------------------------------------------------------------------
(* Characters and strings. *)

DigitChars == <<"0", "1", "2", "3", "4", "5", "6", "7", "8", "9">>

\* \d
IsDigit(c) == \E i \in 1..10 : DigitChars[i] = c

DigitVal(c) == (CHOOSE i \in 1..10 : DigitChars[i] = c) - 1

\* [\d,]
InPriceClass(c) == IsDigit(c) \/ c = ","

IsSpace(c) == c = " "

RECURSIVE EndOfClassRun(_, _)
\* the first index at or after i whose character is not in [\d,]
EndOfClassRun(text, i) ==
    IF i <= Len(text) /\ InPriceClass(text[i]) THEN EndOfClassRun(text, i + 1) ELSE i

RECURSIVE EndOfDigitRun(_, _)
\* the first index at or after i whose character is not in \d
EndOfDigitRun(text, i) ==
    IF i <= Len(text) /\ IsDigit(text[i]) THEN EndOfDigitRun(text, i + 1) ELSE i

\* the end (exclusive) of the match of [\d,]+\.?\d* that starts at i; every
\* quantifier is greedy and none of them ever has to give a character back
MatchEnd(text, i) ==
    LET a == EndOfClassRun(text, i)
        b == IF a <= Len(text) /\ text[a] = "." THEN a + 1 ELSE a
    IN  EndOfDigitRun(text, b)

RECURSIVE re_findall(_, _)
\* re.findall(price_pattern, text), scanning from index i: the non-overlapping
\* matches from left to right
re_findall(text, i) ==
    IF i > Len(text) THEN <<>>
    ELSE IF InPriceClass(text[i])
         THEN LET e == MatchEnd(text, i)
              IN  <<SubSeq(text, i, e - 1)>> \o re_findall(text, e)
         ELSE re_findall(text, i + 1)

\* s.replace(',', '')
RemoveCommas(s) == SelectSeq(s, LAMBDA c : c # ",")

RECURSIVE DigitsToNat(_)
DigitsToNat(s) ==
    IF s = <<>> THEN 0
    ELSE 10 * DigitsToNat(SubSeq(s, 1, Len(s) - 1)) + DigitVal(s[Len(s)])

\* float(s) for a string of digits and dots (all that price_str can hold):
\* the number, or ValueError when s has no digit or more than one dot
float_(s) ==
    LET dots == {i \in 1..Len(s) : s[i] = "."}
        digits == SelectSeq(s, IsDigit)
    IN  IF \/ Cardinality(dots) > 1
           \/ digits = <<>>
           \/ \E i \in 1..Len(s) : ~IsDigit(s[i]) /\ s[i] # "."
        THEN Exc("ValueError")
        ELSE IF dots = {} THEN Float(DigitsToNat(digits), 0)
        ELSE LET d == CHOOSE i \in dots : TRUE
             IN  Float(DigitsToNat(digits), Len(s) - d)

\* float(price_str) outside any try: the ValueError leaves the call
PropagateValueError(r) == r

\* the try/except of extract_price around float(price_str)
CatchValueError(r) == IF r = Exc("ValueError") THEN None ELSE r

\* PriceScraper.extract_price
extract_price(text) ==
    LET matches == re_findall(text, 1)
    IN  IF matches # <<>>
        THEN CatchValueError(float_(RemoveCommas(matches[1])))
        ELSE None

---------------------------------------------------------------------------
(* The texts extract_price is applied to. *)

Alphabet == {"0", "5", ",", ".", "$"}

RECURSIVE SeqsUpTo(_, _)
SeqsUpTo(S, n) ==
    IF n = 0 THEN {<<>>}
    ELSE LET shorter == SeqsUpTo(S, n - 1)
         IN  shorter \cup {Append(s, c) : s \in shorter, c \in S}

\* '$1,234.56 extra'
TextExtra == <<"$", "1", ",", "2", "3", "4", ".", "5", "6", " ", "e", "x", "t", "r", "a">>
\* '12.34.56'
TextTwoDots == <<"1", "2", ".", "3", "4", ".", "5", "6">>
\* 'Was $50, now $30'
TextWasNow == <<"W", "a", "s", " ", "$", "5", "0", ",", " ", "n", "o", "w", " ", "$", "3", "0">>
\* 'Sale, now $30'
TextSaleNow == <<"S", "a", "l", "e", ",", " ", "n", "o", "w", " ", "$", "3", "0">>
\* 'abc'
TextAbc == <<"a", "b", "c">>

ExampleTexts == {TextExtra, TextTwoDots, TextWasNow, TextSaleNow, TextAbc}

Texts == SeqsUpTo(Alphabet, MaxTextLen) \cup ExampleTexts

---------------------------------------------------------------------------
(* extract_price as a state machine: an argument is chosen, the call runs. *)

ScrapeIdle == call = Idle /\ ret = Idle /\ queried = <<>>
StoreIdle ==
    file = [t |-> "absent"] /\ prev_file = Idle /\ last_new = <<>> /\ save_ret = Idle

InitExtract ==
    /\ ep_text \in Texts
    /\ ep_result = Pending
    /\ ScrapeIdle
    /\ StoreIdle

CallExtractPrice ==
    /\ ep_result = Pending
    /\ ep_result' = extract_price(ep_text)
    /\ UNCHANGED <<ep_text, call, ret, queried, file, prev_file, last_new, save_ret>>

NextText ==
    /\ ep_result # Pending
    /\ ep_text' \in Texts
    /\ ep_result' = Pending
    /\ UNCHANGED <<call, ret, queried, file, prev_file, last_new, save_ret>>

NextExtract == CallExtractPrice \/ NextText

SpecExtract == InitExtract /\ [][NextExtract]_vars

---------------------------------------------------------------------------
(* scrape_generic_product: its inputs.                                     *)
(*                                                                         *)
(* A parsed page is what select_one answers on it: for each selector the   *)
(* first matching element (a Tag with its text) or None.  A selector is an *)
(* opaque string; the ones soupsieve cannot compile are MalformedSelectors. *)

\* the most elements a page holds among the selectors of the model
MaxElems == 2

\* the length of the last path segment of the long URL
LongSegLen == 60

\* the [:50] of the title fallback
TitleMaxLen == 50

Tag(text) == [t |-> "Tag", text |-> text]

common_selectors ==
    <<".price", ".a-price-whole", "[data-price]", ".product-price",
      "#priceblock_dealprice", "#priceblock_ourprice", ".price-current",
      "[itemprop=\"price\"]">>

title_selectors == <<"h1", ".product-title", "#productTitle", "[itemprop=\"name\"]">>

Range(s) == {s[i] : i \in 1..Len(s)}

\* a well-formed selector of the caller's, one soupsieve rejects, and ''
CallerSelectors == {".sale", "div[", ""}
MalformedSelectors == {"div["}

PriceArgs == {None} \cup {Str(s) : s \in CallerSelectors}

PageSelectors ==
    Range(common_selectors) \cup Range(title_selectors) \cup (CallerSelectors \ (MalformedSelectors \cup {""}))

\* ' $19.99 ', '$5', '0.00', 'N/A'
PriceTexts ==
    {<<" ", "$", "1", "9", ".", "9", "9", " ">>, <<"$", "5">>,
     <<"0", ".", "0", "0">>, <<"N", "/", "A">>}

\* ' Widget', ' ' (an element with no text but white space)
TitleTexts == {<<" ", "W", "i", "d", "g", "e", "t">>, <<" ">>}

TextsFor(sel) == IF sel \in Range(title_selectors) THEN TitleTexts ELSE PriceTexts

PagesOn(S) ==
    {[sel \in PageSelectors |-> IF sel \in S THEN Tag(f[sel]) ELSE None] :
        f \in {g \in [S -> PriceTexts \cup TitleTexts] : \A sel \in S : g[sel] \in TextsFor(sel)}}

Pages == UNION {PagesOn(S) : S \in {T \in SUBSET PageSelectors : Cardinality(T) <= MaxElems}}

\* 'https://x.com/'
UrlBase == <<"h", "t", "t", "p", "s", ":", "/", "/", "x", ".", "c", "o", "m", "/">>
\* 'https://x.com/cool-gadget'
UrlGadget == UrlBase \o <<"c", "o", "o", "l", "-", "g", "a", "d", "g", "e", "t">>
\* 'https://x.com/cool-gadget/'
UrlSlash == UrlGadget \o <<"/">>
\* 'https://x.com/aaa...a'
UrlLong == UrlBase \o [i \in 1..LongSegLen |-> "a"]

Urls == {UrlGadget, UrlSlash, UrlLong}

StatusCodes == {200, 304, 404, 503}

\* what session.get meets: no answer in 10 s, no connection, or a response
FetchOutcomes ==
    {[t |-> "Timeout"], [t |-> "ConnectionError"]}
    \cup {[t |-> "Response", status_code |-> c, page |-> p] : c \in StatusCodes, p \in Pages}

\* datetime.now().strftime('%Y-%m-%d %H:%M:%S')
ScrapeClock == {Str("2024-01-01 12:00:00")}

---------------------------------------------------------------------------
(* scrape_generic_product: the code. *)

\* the subclasses of requests.RequestException that lines 47-48 can raise
RequestExceptions == {"Timeout", "ConnectionError", "HTTPError"}

\* self.session.get(url, timeout=10): the response, or the exception raised
session_get(outcome) ==
    IF outcome.t = "Response" THEN outcome ELSE Exc(outcome.t)

\* a check that raises for the server errors only
raise_for_5xx(response) ==
    IF 500 <= response.status_code /\ response.status_code < 600
    THEN Exc("HTTPError")
    ELSE response

\* response.raise_for_status(): HTTPError for a 4xx or 5xx status
raise_for_status(response) ==
    IF 400 <= response.status_code /\ response.status_code < 600
    THEN Exc("HTTPError")
    ELSE response

\* soup.select_one(selector): the first matching element, None, or the
\* SelectorSyntaxError of a selector that does not compile
select_one(page, selector) ==
    IF selector \in MalformedSelectors THEN Exc("SelectorSyntaxError")
    ELSE IF selector \in DOMAIN page THEN page[selector]
    ELSE None

RECURSIVE LStrip(_)
LStrip(s) == IF s # <<>> /\ IsSpace(s[1]) THEN LStrip(Tail(s)) ELSE s

RECURSIVE RStrip(_)
RStrip(s) ==
    IF s # <<>> /\ IsSpace(s[Len(s)]) THEN RStrip(SubSeq(s, 1, Len(s) - 1)) ELSE s

\* element.get_text(strip=True) of an element holding one text node
get_text_strip(element) == RStrip(LStrip(element.text))

\* lines 68-69: the caller's selector, when truthy, goes first
PriceSelectorList(price_selector) ==
    IF price_selector.t = "str" /\ price_selector.s # ""
    THEN <<price_selector.s>> \o common_selectors
    ELSE common_selectors

\* a loop body that keeps the price of an earlier element when the text of
\* this one does not parse
PriceStepKeepsPrice(acc, element) ==
    LET txt == get_text_strip(element)
        p == extract_price(txt)
    IN  [acc EXCEPT !.price_text = Str(txt),
                    !.price = IF p # None THEN p ELSE acc.price,
                    !.stop = TruthyFloat(p)]

\* lines 74-76 for a matched element: price_text and price are assigned
\* together, and the loop breaks when the price is truthy
PriceStep(acc, element) ==
    LET txt == get_text_strip(element)
        p == extract_price(txt)
    IN  [acc EXCEPT !.price_text = Str(txt), !.price = p, !.stop = TruthyFloat(p)]

RECURSIVE PriceLoop(_, _, _, _)
\* lines 71-77 from the i-th selector on
PriceLoop(page, selectors, i, acc) ==
    IF i > Len(selectors) \/ acc.stop THEN acc
    ELSE LET element == select_one(page, selectors[i])
             logged == [acc EXCEPT !.log = Append(acc.log, selectors[i])]
         IN  IF element.t = "raise" THEN [logged EXCEPT !.exc = element]
             ELSE IF element.t = "Tag"
                  THEN PriceLoop(page, selectors, i + 1, PriceStep(logged, element))
                  ELSE PriceLoop(page, selectors, i + 1, logged)

RECURSIVE TitleLoop(_, _, _)
\* lines 82-86 from the i-th selector on: the first matching element wins
TitleLoop(page, i, acc) ==
    IF i > Len(title_selectors) THEN acc
    ELSE LET element == select_one(page, title_selectors[i])
             logged == [acc EXCEPT !.log = Append(acc.log, title_selectors[i])]
         IN  IF element.t = "Tag"
             THEN [logged EXCEPT !.title = Str(get_text_strip(element))]
             ELSE TitleLoop(page, i + 1, logged)

RECURSIVE LastSlash(_, _)
\* the index of the last '/' at or before i, 0 when there is none
LastSlash(url, i) ==
    IF i = 0 THEN 0 ELSE IF url[i] = "/" THEN i ELSE LastSlash(url, i - 1)

\* url.split('/')[-1]
LastSegment(url) == SubSeq(url, LastSlash(url, Len(url)) + 1, Len(url))

\* s[:n]
Truncate(s, n) == IF Len(s) <= n THEN s ELSE SubSeq(s, 1, n)

\* lines 88-89
TitleOrFallback(title, url) ==
    IF ~TruthyStr(title) THEN Str(Truncate(LastSegment(url), TitleMaxLen)) ELSE title

\* line 97
StatusOf(price) == IF TruthyFloat(price) THEN <<"success">> ELSE <<"price_not_found">>

\* lines 49-98: the body of the try after a response with no error status
ScrapeBody(url, price_selector, page, now) ==
    LET scan == PriceLoop(page, PriceSelectorList(price_selector), 1,
                          [price |-> None, price_text |-> None, stop |-> FALSE,
                           log |-> <<>>, exc |-> None])
        tl == TitleLoop(page, 1, [title |-> None, log |-> scan.log])
    IN  IF scan.exc # None THEN [ret |-> scan.exc, log |-> scan.log]
        ELSE [ret |-> Returned([title |-> TitleOrFallback(tl.title, url),
                                url |-> Str(url),
                                price |-> scan.price,
                                price_text |-> scan.price_text,
                                timestamp |-> now,
                                status |-> StatusOf(scan.price)]),
              log |-> tl.log]

\* lines 100-109: except requests.RequestException
ExceptRequestException(r, url, now) ==
    IF r.ret.t = "raise" /\ r.ret.exc \in RequestExceptions
    THEN [r EXCEPT !.ret = Returned([title |-> Str(url),
                                     url |-> Str(url),
                                     price |-> None,
                                     price_text |-> None,
                                     timestamp |-> now,
                                     status |-> <<"error", ": ", r.ret.exc>>])]
    ELSE r

\* PriceScraper.scrape_generic_product
scrape_generic_product(url, price_selector, outcome, now) ==
    LET got == session_get(outcome)
        response == IF got.t = "raise" THEN got ELSE raise_for_status(got)
        tried == IF response.t = "raise" THEN [ret |-> response, log |-> <<>>]
                 ELSE ScrapeBody(url, price_selector, response.page, now)
    IN  ExceptRequestException(tried, url, now)

---------------------------------------------------------------------------
(* scrape_generic_product as a state machine: one call, then the next. *)

ExtractIdle == ep_text = <<>> /\ ep_result = Pending

InitScrape ==
    /\ ExtractIdle
    /\ ScrapeIdle
    /\ StoreIdle

CallScrape ==
    /\ call = Idle
    /\ \E url \in Urls, price_selector \in PriceArgs, outcome \in FetchOutcomes,
          now \in ScrapeClock :
          LET r == scrape_generic_product(url, price_selector, outcome, now)
          IN  /\ call' = [t |-> "call", url |-> url, price_selector |-> price_selector,
                          outcome |-> outcome, now |-> now]
              /\ ret' = r.ret
              /\ queried' = r.log
    /\ UNCHANGED <<ep_text, ep_result, file, prev_file, last_new, save_ret>>

\* the caller takes the result (or the exception) and the model is ready for
\* the next call
NextCall ==
    /\ call # Idle
    /\ call' = Idle
    /\ ret' = Idle
    /\ queried' = <<>>
    /\ UNCHANGED <<ep_text, ep_result, file, prev_file, last_new, save_ret>>

NextScrape == CallScrape \/ NextCall

SpecScrape == InitScrape /\ [][NextScrape]_vars

---------------------------------------------------------------------------
(* save_to_csv: its inputs.                                                *)
(*                                                                         *)
(* A DataFrame is its columns and its rows, in order.  A row carries the   *)
(* key columns url and timestamp and the price column; the other columns   *)
(* of an Observation travel the way price does.  PRICE_DATA_FILE is absent *)
(* or holds a header line and one line of cells per row.                   *)

\* the longest batch given to save_to_csv
MaxBatch == 2

NaN == [t |-> "NaN"]
Absent == [t |-> "absent"]

StoreUrls == {Str(UrlGadget), Str(UrlSlash)}
StoreTimestamps == {Str("2024-01-01 12:00:00"), Str("2024-01-01 12:00:01")}
StorePrices == {None, Float(1999, 2)}

\* the dicts scrape_generic_product returns, as far as the store reads them
Observations == [url : StoreUrls, timestamp : StoreTimestamps, price : StorePrices]

Batches == SeqsUpTo(Observations, MaxBatch)

ObservationColumns == <<"url", "timestamp", "price">>

---------------------------------------------------------------------------
(* save_to_csv: the code. *)

\* pd.DataFrame(data): a list of no dicts gives a frame with no columns
DataFrame(data) ==
    [t |-> "DataFrame",
     columns |-> IF data = <<>> THEN <<>> ELSE ObservationColumns,
     rows |-> data]

\* DataFrame.empty
IsEmptyFrame(df) == df.columns = <<>> \/ df.rows = <<>>

\* one cell of the file: a missing value (None, NaN) is written as nothing
Cell(v) ==
    IF v \in {None, NaN} THEN [t |-> "cell", empty |-> TRUE]
    ELSE [t |-> "cell", empty |-> FALSE, v |-> v]

\* and nothing is read back as NaN
Uncell(c) == IF c.empty THEN NaN ELSE c.v

\* df.to_csv(PRICE_DATA_FILE, index=False): the header line, then the rows
to_csv(df) ==
    [t |-> "csv",
     header |-> df.columns,
     lines |-> [i \in 1..Len(df.rows) |->
                  [url |-> Cell(df.rows[i].url),
                   timestamp |-> Cell(df.rows[i].timestamp),
                   price |-> Cell(df.rows[i].price)]]]

\* pd.read_csv(PRICE_DATA_FILE): a file with no header field has no columns
\* to parse, which is pandas.errors.EmptyDataError
read_csv(f) ==
    IF f.header = <<>> THEN Exc("EmptyDataError")
    ELSE [t |-> "DataFrame",
          columns |-> f.header,
          rows |-> [i \in 1..Len(f.lines) |->
                      [url |-> Uncell(f.lines[i].url),
                       timestamp |-> Uncell(f.lines[i].timestamp),
                       price |-> Uncell(f.lines[i].price)]]]

\* pd.concat([a, b], ignore_index=True): the union of the columns, a's rows
\* then b's
concat(a, b) ==
    [t |-> "DataFrame",
     columns |-> IF a.columns = <<>> THEN b.columns ELSE a.columns,
     rows |-> a.rows \o b.rows]

\* the value of the subset columns in a row
KeyOf(row) == <<row.url, row.timestamp>>

\* duplicates looked up by url alone
KeptLastByUrl(rows, i) == \A j \in (i + 1)..Len(rows) : rows[j].url # rows[i].url

\* whether drop_duplicates(keep='last') keeps the i-th row: no later row has its key
KeptLast(rows, i) == \A j \in (i + 1)..Len(rows) : KeyOf(rows[j]) # KeyOf(rows[i])

RECURSIVE SelectKept(_, _)
\* the rows from the i-th on that are kept, in their order
SelectKept(rows, i) ==
    IF i > Len(rows) THEN <<>>
    ELSE (IF KeptLast(rows, i) THEN <<rows[i]>> ELSE <<>>) \o SelectKept(rows, i + 1)

\* df.drop_duplicates(subset=['url', 'timestamp'], keep='last'): an empty frame
\* is returned as it is, before the subset is looked up
drop_duplicates(df) ==
    IF IsEmptyFrame(df) THEN df ELSE [df EXCEPT !.rows = SelectKept(df.rows, 1)]

\* PriceScraper.save_to_csv on the file f: the file it leaves and what the
\* call gives back
save_to_csv(f, data) ==
    LET df_new == DataFrame(data)
        df_existing == IF f # Absent THEN read_csv(f) ELSE None
    IN  IF df_existing.t = "raise" THEN [file |-> f, ret |-> df_existing]
        ELSE LET df_combined ==
                     drop_duplicates(IF f # Absent THEN concat(df_existing, df_new)
                                     ELSE df_new)
             IN  [file |-> to_csv(df_combined), ret |-> Returned(df_combined)]

---------------------------------------------------------------------------
(* save_to_csv as a state machine, from an absent file. *)

InitStore ==
    /\ ExtractIdle
    /\ ScrapeIdle
    /\ StoreIdle

CallSave ==
    /\ save_ret = Idle
    /\ \E data \in Batches :
          LET r == save_to_csv(file, data)
          IN  /\ file' = r.file
              /\ save_ret' = r.ret
              /\ last_new' = data
    /\ prev_file' = file
    /\ UNCHANGED <<ep_text, ep_result, call, ret, queried>>

\* the caller takes the result (or the exception); the file stays
NextSave ==
    /\ save_ret # Idle
    /\ save_ret' = Idle
    /\ last_new' = <<>>
    /\ prev_file' = Idle
    /\ UNCHANGED <<ep_text, ep_result, call, ret, queried, file>>

NextStore == CallSave \/ NextSave

SpecStore == InitStore /\ [][NextStore]_vars

---------------------------------------------------------------------------
(* Properties of extract_price, under SpecExtract. *)

HasDigit(text) == \E i \in 1..Len(text) : IsDigit(text[i])

FirstDigit(text) ==
    CHOOSE i \in 1..Len(text) : IsDigit(text[i]) /\ \A j \in 1..(i - 1) : ~IsDigit(text[j])

\* the number denoted by the first numeric run of a text with a digit: from
\* the first digit, the digits and thousands commas, then a decimal point and
\* the fraction digits when they follow; the commas are dropped
FirstRunValue(text) ==
    LET d == FirstDigit(text)
        a == EndOfClassRun(text, d)
        dot == a <= Len(text) /\ text[a] = "."
        e == IF dot THEN EndOfDigitRun(text, a + 1) ELSE a
        whole == SelectSeq(SubSeq(text, d, a - 1), IsDigit)
        frac == IF dot THEN SubSeq(text, a + 1, e - 1) ELSE <<>>
    IN  Float(DigitsToNat(whole \o frac), Len(frac))

\* C4: for every text with at least one digit, extract_price returns the
\* number denoted by the first numeric run of the text, whatever punctuation
\* precedes the first digit and whatever follows the run.
C4_FirstRunIsReturned ==
    (ep_result # Pending /\ HasDigit(ep_text)) => ep_result = FirstRunValue(ep_text)

\* C5: extract_price never raises: every text gives a number or None, and a
\* text with no digit gives None.
C5_NeverRaises ==
    ep_result # Pending =>
        /\ ep_result.t \in {"float", "None"}
        /\ ~HasDigit(ep_text) => ep_result = None

\* C5, its case: the first match is made of commas (and a dot) only, float()
\* raised ValueError on what is left of it, and the call returned None
C5_Witness ==
    /\ ep_result = None
    /\ ep_text # <<>>
    /\ ep_text[1] = ","
    /\ \A i \in 1..Len(ep_text) : ep_text[i] \in {",", "."}

---------------------------------------------------------------------------
(* Properties of scrape_generic_product, under SpecScrape. *)

Called == call # Idle
HasReturned == Called /\ ret.t = "return"
GotResponse == Called /\ call.outcome.t = "Response"

\* the fetch of lines 47-48 went through: a response whose status is no error
FetchSucceeded == GotResponse /\ call.outcome.status_code < 400

StatusBeginsWithError(status) == status[1] = "error"

\* the Observation of the except branch, and no locator evaluated
IsErrorObservation ==
    /\ HasReturned
    /\ StatusBeginsWithError(ret.v.status)
    /\ ret.v.price = None
    /\ ret.v.price_text = None
    /\ ret.v.title = Str(call.url)
    /\ ret.v.url = Str(call.url)
    /\ queried = <<>>

\* C1: the call is total: it returns an Observation whose status is
\* 'success', 'price_not_found' or begins with 'error', and raises nothing.
C1_Total ==
    Called =>
        /\ ret.t = "return"
        /\ \/ ret.v.status \in {<<"success">>, <<"price_not_found">>}
           \/ StatusBeginsWithError(ret.v.status)

PriceOrder ==
    IF call.price_selector # None /\ call.price_selector.s # ""
    THEN <<call.price_selector.s>> \o common_selectors
    ELSE common_selectors

\* the selectors the price scan gave to select_one
PriceQueried == SelectSeq(queried, LAMBDA sel : sel \notin Range(title_selectors))

Matches(sel) == sel \in PageSelectors /\ call.outcome.page[sel] # None

TrimmedText(sel) == get_text_strip(call.outcome.page[sel])

\* C3: after a successful fetch the price locators are tried in order, the
\* scan stops at the first one whose element's text parses to a number (zero
\* included) and the price is that number; with no such locator the whole
\* list is tried and the price is None.
C3_FirstParsedWins ==
    (HasReturned /\ FetchSucceeded) =>
        LET order == PriceOrder
            hits == {i \in 1..Len(order) :
                        Matches(order[i]) /\ extract_price(TrimmedText(order[i])) # None}
        IN  IF hits = {}
            THEN ret.v.price = None /\ PriceQueried = order
            ELSE LET k == CHOOSE i \in hits : \A j \in hits : i <= j
                 IN  /\ ret.v.price = extract_price(TrimmedText(order[k]))
                     /\ PriceQueried = SubSeq(order, 1, k)

\* C6: every Observation has a non-empty title; after a successful fetch it
\* is the trimmed text of the first title locator that matches, and with no
\* match the last '/'-segment of the URL cut to 50 characters.
C6_TitleNonEmpty ==
    HasReturned =>
        /\ ret.v.title.s # <<>>
        /\ FetchSucceeded =>
              LET hits == {i \in 1..Len(title_selectors) : Matches(title_selectors[i])}
              IN  IF hits = {}
                  THEN ret.v.title = Str(Truncate(LastSegment(call.url), TitleMaxLen))
                  ELSE LET k == CHOOSE i \in hits : \A j \in hits : i <= j
                       IN  ret.v.title = Str(TrimmedText(title_selectors[k]))

\* C9: after a successful fetch, status is 'success' exactly when price is
\* not None and 'price_not_found' exactly when it is None.
C9_StatusFollowsPrice ==
    (HasReturned /\ FetchSucceeded) =>
        /\ ret.v.status = <<"success">> <=> ret.v.price # None
        /\ ret.v.status = <<"price_not_found">> <=> ret.v.price = None

\* the places in PriceQueried whose selector matched an element
MatchedQueried == {i \in 1..Len(PriceQueried) : Matches(PriceQueried[i])}

\* C10: price and price_text come from the same element: price_text is None
\* exactly when no evaluated price locator matched, otherwise it is the
\* trimmed text of the last evaluated price locator that matched, and price
\* is extract_price(price_text) (None when price_text is None).
C10_PriceFromPriceText ==
    HasReturned =>
        /\ ret.v.price_text = None <=> MatchedQueried = {}
        /\ MatchedQueried # {} =>
              LET k == CHOOSE i \in MatchedQueried : \A j \in MatchedQueried : j <= i
              IN  ret.v.price_text = Str(TrimmedText(PriceQueried[k]))
        /\ ret.v.price =
              IF ret.v.price_text = None THEN None ELSE extract_price(ret.v.price_text.s)

\* C10, its case: an earlier locator matched an element reading zero, the
\* scan went on, and a later locator matched an element that does not parse
C10_Witness ==
    /\ HasReturned
    /\ FetchSucceeded
    /\ Cardinality(MatchedQueried) = 2
    /\ \E i \in MatchedQueried : extract_price(TrimmedText(PriceQueried[i])) = Float(0, 0)
    /\ ret.v.price_text # None
    /\ ret.v.price = None

---------------------------------------------------------------------------
(* Properties of save_to_csv, under SpecStore. *)

SaveCalled == save_ret # Idle

\* the rows a file holds, as read_csv gives them; none when it is absent or
\* has no line
RowsOf(f) ==
    IF f.t = "csv"
    THEN [i \in 1..Len(f.lines) |->
            [url |-> Uncell(f.lines[i].url),
             timestamp |-> Uncell(f.lines[i].timestamp),
             price |-> Uncell(f.lines[i].price)]]
    ELSE <<>>

KeysIn(rows) == {KeyOf(rows[i]) : i \in 1..Len(rows)}

OneRowPerKey(rows) ==
    \A i, j \in 1..Len(rows) : KeyOf(rows[i]) = KeyOf(rows[j]) => i = j

\* the last row of rows with the key
LastWithKey(rows, key) ==
    rows[CHOOSE i \in 1..Len(rows) :
            KeyOf(rows[i]) = key /\ \A j \in (i + 1)..Len(rows) : KeyOf(rows[j]) # key]

\* C7: save_to_csv(new) produces a dataset whose keys are those of the
\* existing file (none when it does not exist) and those of new, one row per
\* key: the last row of new with the key, otherwise the existing row.
C7_MergeIsUnion ==
    SaveCalled =>
        /\ save_ret.t = "return"
        /\ KeysIn(RowsOf(file)) = KeysIn(RowsOf(prev_file)) \cup KeysIn(last_new)
        /\ KeysIn(save_ret.v.rows) = KeysIn(RowsOf(file))
        /\ OneRowPerKey(RowsOf(file))
        /\ OneRowPerKey(save_ret.v.rows)
        /\ \A i \in 1..Len(save_ret.v.rows) :
              LET row == save_ret.v.rows[i]
              IN  IF KeyOf(row) \in KeysIn(last_new)
                  THEN row = LastWithKey(last_new, KeyOf(row))
                  ELSE row = LastWithKey(RowsOf(prev_file), KeyOf(row))

\* C8: from an absent file, after any sequence of calls the file holds at
\* most one row per (url, timestamp) key, and no call makes its set of keys
\* shrink.
C8_KeysUniqueAndGrow ==
    /\ OneRowPerKey(RowsOf(file))
    /\ SaveCalled => KeysIn(RowsOf(prev_file)) \subseteq KeysIn(RowsOf(file))

\* C8, its case: a call on a file with rows, whose batch holds two
\* observations of one URL in one second, the key already in the file
C8_Witness ==
    /\ SaveCalled
    /\ save_ret.t = "return"
    /\ Len(last_new) = 2
    /\ KeyOf(last_new[1]) = KeyOf(last_new[2])
    /\ KeyOf(last_new[1]) \in KeysIn(RowsOf(prev_file))
    /\ Cardinality(KeysIn(RowsOf(prev_file))) >= 2

====
